---- MODULE Spec2Model ----
(***************************************************************************)
(* Model of the synthesia backend: the two FastAPI endpoints of backend.py *)
(* (/describe-image-musically, /generate-audio), the service functions of  *)
(* services.py they delegate to, and the stream_audio_from_url generator.  *)
(*                                                                         *)
(* Python strings are sequences of one-character strings, so that          *)
(* str.startswith is computed and not assumed.  Python values are tagged   *)
(* records, so that isinstance, "in" and truthiness are computed as the    *)
(* interpreter computes them.                                              *)
(***************************************************************************)
EXTENDS Integers, Sequences, FiniteSets, TLC

\* Number of inbound HTTP requests handled concurrently.
NumRequests == 2
\* Number of chunks the remote server of a streamed download sends at most.
MaxChunks == 3

Requests == 1..NumRequests

-----------------------------------------------------------------------------
(* Python values *)

PyNone == [tag |-> "None"]
PyStr(s) == [tag |-> "str", val |-> s]
PyInt(n) == [tag |-> "int", val |-> n]
PyDict(d) == [tag |-> "dict", items |-> d]
\* An object exposing a .url attribute (e.g. a file-output object).
PyUrlObject(u) == [tag |-> "object", url |-> u]
\* The OpenAI client object built at import time.
PyClient == [tag |-> "client"]

\* bool(v) as Python evaluates "if v" / "not v".
Truthy(v) ==
  CASE v.tag = "None" -> FALSE
    [] v.tag = "str" -> v.val # << >>
    [] v.tag = "int" -> v.val # 0
    [] v.tag = "dict" -> DOMAIN v.items # {}
    [] OTHER -> TRUE

\* s.startswith(prefix) on character sequences.
StartsWith(s, prefix) ==
  /\ Len(s) >= Len(prefix)
  /\ SubSeq(s, 1, Len(prefix)) = prefix

ImageSlash == <<"i", "m", "a", "g", "e", "/">>
Http == <<"h", "t", "t", "p">>

\* Content types an upload can declare (None: the part carries no
\* Content-Type header).
ImagePng == ImageSlash \o <<"p", "n", "g">>
TextPlain == <<"t", "e", "x", "t", "/", "p", "l", "a", "i", "n">>
ImageNoSlash == <<"i", "m", "a", "g", "e">>
ContentTypes ==
  {PyNone, PyStr(<< >>), PyStr(ImagePng), PyStr(ImageSlash), PyStr(TextPlain),
   PyStr(ImageNoSlash)}

\* The multipart field "image" of a request: missing, or an upload.
Missing == [tag |-> "missing"]
Uploads == {Missing} \cup {[tag |-> "upload", content_type |-> ct] : ct \in ContentTypes}

\* The form field "prompt" of a request: missing, empty, or text.
PromptText == <<"j", "a", "z", "z">>
Prompts == {Missing, PyStr(<< >>), PyStr(PromptText), PyStr(<<" ">>)}

\* URLs the audio provider can hand back.
HttpsUrl == Http \o <<"s", ":", "/", "/", "a">>
HttpUrl == Http \o <<":", "/", "/", "b">>
FtpUrl == <<"f", "t", "p", ":", "/", "/", "c">>
Urls == {HttpsUrl, HttpUrl, FtpUrl}

\* The three output shapes the specification recognises, for one URL.
BareUrl(u) == PyStr(u)
AudioDict(u) == PyDict([k \in {"audio"} |-> PyStr(u)])
RecognisedShapes(u) == {BareUrl(u), AudioDict(u), PyUrlObject(u)}

\* Outputs matching none of the recognised shapes.
UnrecognisedOutputs ==
  {PyInt(7), PyInt(0), PyNone, PyDict([k \in {} |-> PyNone]),
   PyDict([k \in {"video"} |-> PyStr(HttpsUrl)])}

\* Dicts whose "audio" entry is falsy, and a bare empty string.
DegenerateOutputs ==
  {PyDict([k \in {"audio"} |-> PyStr(<< >>)]),
   PyDict([k \in {"audio"} |-> PyNone]), PyStr(<< >>)}

AudioOutputs ==
  UNION {RecognisedShapes(u) : u \in Urls} \cup UnrecognisedOutputs \cup DegenerateOutputs

\* message.content values the vision provider can return.
Description == <<"w", "a", "r", "m">>
VisionContents == {PyNone, PyStr(<< >>), PyStr(Description)}

-----------------------------------------------------------------------------
(* Exceptions.  A message is a sequence of text fragments. *)

NoExc == [type |-> "none"]
HTTPException(code, detail) ==
  [type |-> "HTTPException", status_code |-> code, detail |-> detail]
\* replicate.exceptions.ReplicateError
ReplicateError(msg) == [type |-> "ReplicateError", msg |-> msg]
\* Any other Exception subclass (provider SDK error, IndexError, OSError ...).
OtherError(msg) == [type |-> "Exception", msg |-> msg]

StatusText(code) ==
  CASE code = 400 -> "400" [] code = 422 -> "422"
    [] code = 500 -> "500" [] code = 502 -> "502" [] OTHER -> "?"

\* str(e), as interpolated by the f-strings of the except clauses.
StrOf(e) ==
  IF e.type = "HTTPException"
    THEN <<StatusText(e.status_code), ": ">> \o e.detail
    ELSE e.msg

ProviderMessages == {<<"boom">>, << >>}
VisionErrors == {OtherError(m) : m \in ProviderMessages}
AudioErrors ==
  {ReplicateError(m) : m \in ProviderMessages} \cup {OtherError(m) : m \in ProviderMessages}

-----------------------------------------------------------------------------
(* Process configuration, read once at import time. *)

ReplicateToken == <<"r", "8">>
\* os.getenv("REPLICATE_API_TOKEN"): unset, set to the empty string, or set.
TokenValues == {PyNone, PyStr(<< >>), PyStr(ReplicateToken)}
\* openai_client after the try/except around OpenAI() at import.
ClientValues == {PyNone, PyClient}

VARIABLES
  openai_client,        \* services.openai_client
  REPLICATE_API_TOKEN,  \* services.REPLICATE_API_TOKEN
  req,                  \* per inbound request: position, inputs, calls, result
  stream                \* one run of the stream_audio_from_url generator

vars == <<openai_client, REPLICATE_API_TOKEN, req, stream>>

-----------------------------------------------------------------------------
(* Results of a service function and of an endpoint *)

Pending == [kind |-> "pending"]
Return(v) == [kind |-> "return", value |-> v]
Raise(e) == [kind |-> "raise", exc |-> e]

NoResponse == [status_code |-> 0, key |-> "none", value |-> PyNone]
\* A 200 response with a one-key JSON body.
JsonResponse(k, v) == [status_code |-> 200, key |-> k, value |-> v]
\* FastAPI's rendering of a raised HTTPException: {"detail": detail}.
ErrorResponse(e) == [status_code |-> e.status_code, key |-> "detail", value |-> e.detail]
\* FastAPI's answer when a required File(...) / Form(...) parameter is absent.
ValidationResponse == [status_code |-> 422, key |-> "detail", value |-> <<"Field required">>]

IdleRequest ==
  [pc |-> "idle", endpoint |-> "none", input |-> Missing,
   visionCalls |-> 0, audioCalls |-> 0,
   provider |-> Pending, adapter |-> Pending, response |-> NoResponse]

-----------------------------------------------------------------------------
(* services.get_musical_description_from_openai *)

\* image.content_type and image.content_type.startswith("image/")
ValidContentType(ct) == Truthy(ct) /\ StartsWith(ct.val, ImageSlash)

\* The two guards ahead of the try block: the exception raised, or NoExc.
DescribeGuards(client, image) ==
  IF ~Truthy(client)
    THEN HTTPException(500, <<"OpenAI client not initialized. Check API key.">>)
  ELSE IF ~ValidContentType(image.content_type)
    THEN HTTPException(400, <<"Invalid file type. Please upload an image.">>)
  ELSE NoExc

\* except Exception as e: raise HTTPException(500, f"Failed ...: {e}")
DescribeWrap(e) ==
  HTTPException(500, <<"Failed to get musical description from OpenAI: ">> \o StrOf(e))

\* Variant: the "if not description" check is left out.
DescribeResultNoEmptyCheck(outcome) ==
  IF outcome.kind = "raise" THEN Raise(DescribeWrap(outcome.exc))
  ELSE Return(outcome.value)

\* The rest of the try block once the provider call has returned or raised.
\* The empty-description HTTPException is raised inside the try, so the
\* "except Exception" clause catches and wraps it as well.
DescribeResult(outcome) ==
  IF outcome.kind = "raise" THEN Raise(DescribeWrap(outcome.exc))
  ELSE IF ~Truthy(outcome.value)
    THEN Raise(DescribeWrap(
           HTTPException(500, <<"OpenAI returned an empty description.">>)))
  ELSE Return(outcome.value)

\* openai_client.chat.completions.create(...): the one outbound call.
CallVision(q) == [q EXCEPT !.visionCalls = @ + 1, !.pc = "vision"]

-----------------------------------------------------------------------------
(* services.generate_audio_from_replicate *)

\* The shape probing of the provider's output; None when nothing matched.
ExtractAudioUrl(output) ==
  IF output.tag = "dict" /\ "audio" \in DOMAIN output.items
       /\ Truthy(output.items["audio"])
    THEN output.items["audio"]
  ELSE IF output.tag = "str" /\ StartsWith(output.val, Http)
    THEN output
  ELSE PyNone

\* Variant: the generic "except Exception" clause comes first and shadows
\* the ReplicateError clause.
GenerateWrapGenericFirst(e) ==
  HTTPException(500, <<"Failed to generate audio via Replicate: ">> \o StrOf(e))

\* The except clauses of the try block, in order.
GenerateWrap(e) ==
  IF e.type = "ReplicateError"
    THEN HTTPException(502, <<"Audio generation service error: ">> \o StrOf(e))
    ELSE HTTPException(500, <<"Failed to generate audio via Replicate: ">> \o StrOf(e))

\* Variant: the "if not audio_url" check is left out.
GenerateResultNoShapeCheck(outcome) ==
  IF outcome.kind = "raise" THEN Raise(GenerateWrap(outcome.exc))
  ELSE Return(ExtractAudioUrl(outcome.value))

\* The rest of the try block once replicate.run has returned or raised.
GenerateResult(outcome) ==
  IF outcome.kind = "raise" THEN Raise(GenerateWrap(outcome.exc))
  ELSE IF ~Truthy(ExtractAudioUrl(outcome.value))
    THEN Raise(GenerateWrap(
           HTTPException(500, <<"Unexpected output format from audio generation model.">>)))
  ELSE Return(ExtractAudioUrl(outcome.value))

\* Variant: the guard tests "is None" instead of falsiness.
TokenGuardNoneOnly(token) ==
  IF token = PyNone
    THEN HTTPException(500, <<"Replicate API token not configured.">>)
    ELSE NoExc

\* if not REPLICATE_API_TOKEN: raise HTTPException(500, ...)
TokenGuard(token) ==
  IF ~Truthy(token)
    THEN HTTPException(500, <<"Replicate API token not configured.">>)
    ELSE NoExc

\* replicate.run(model_identifier, input=input_data): the one outbound call.
CallAudio(q) == [q EXCEPT !.audioCalls = @ + 1, !.pc = "audio"]

-----------------------------------------------------------------------------
(* backend.py: the two endpoints *)

\* image: UploadFile = File(...): the field must be present.
FileFieldPresent(image) == image # Missing

\* Variant: an empty form value counts as present.
FormFieldAcceptsEmpty(prompt) == prompt # Missing

\* prompt: str = Form(...): the field must be present; FastAPI treats an
\* empty form value of a required Form parameter as a missing field.
FormFieldPresent(prompt) == prompt # Missing /\ prompt.val # << >>

\* try / except HTTPException: raise e / except Exception: raise 500.
DescribeEndpoint(result) ==
  IF result.kind = "return" THEN JsonResponse("description", result.value)
  ELSE IF result.exc.type = "HTTPException" THEN ErrorResponse(result.exc)
  ELSE ErrorResponse(
         HTTPException(500, <<"An unexpected error occurred: ">> \o StrOf(result.exc)))

\* Variant: the "except HTTPException: raise e" clause is left out, so the
\* generic clause turns every failure into a 500.
GenerateEndpointNoReraise(result) ==
  IF result.kind = "return" THEN JsonResponse("audio_url", result.value)
  ELSE ErrorResponse(
         HTTPException(500, <<"An unexpected error occurred while generating audio: ">>
                              \o StrOf(result.exc)))

GenerateEndpoint(result) ==
  IF result.kind = "return" THEN JsonResponse("audio_url", result.value)
  ELSE IF result.exc.type = "HTTPException" THEN ErrorResponse(result.exc)
  ELSE ErrorResponse(
         HTTPException(500, <<"An unexpected error occurred while generating audio: ">>
                              \o StrOf(result.exc)))

\* The request ends: the service function's result goes through the endpoint.
FinishDescribe(q, result) ==
  [q EXCEPT !.pc = "done", !.adapter = result, !.response = DescribeEndpoint(result)]

\* Variant: a failed provider call is tried once more before giving up.
FinishGenerateWithRetry(q, result) ==
  [q EXCEPT !.pc = "done", !.adapter = result, !.response = GenerateEndpoint(result),
            !.audioCalls = IF q.provider.kind = "raise" THEN @ + 1 ELSE @]

FinishGenerate(q, result) ==
  [q EXCEPT !.pc = "done", !.adapter = result, !.response = GenerateEndpoint(result)]
\* The framework rejects the request before the endpoint function runs.
RejectValidation(q) == [q EXCEPT !.pc = "done", !.response = ValidationResponse]

-----------------------------------------------------------------------------
(* services.stream_audio_from_url: an async generator of byte chunks *)

\* Bytes objects are sequences of byte values; b"" is the empty sequence.
EmptyBytes == << >>
Chunks == {EmptyBytes, <<1>>, <<2, 3>>}

\* requests.exceptions.RequestException and its subclasses
\* (ConnectionError, HTTPError, ChunkedEncodingError ...).
RequestException(msg) == [type |-> "RequestException", msg |-> msg]
StreamErrors == {RequestException(<<"reset">>), OtherError(<<"boom">>)}

InitStream ==
  [pc |-> "start", received |-> 0, yielded |-> << >>,
   failure |-> NoExc, raised |-> NoExc]

\* Variant: keep-alive chunks are not filtered out.
OnChunkNoFilter(yielded, chunk) == Append(yielded, chunk)

\* if chunk: yield chunk
OnChunk(yielded, chunk) ==
  IF chunk # EmptyBytes THEN Append(yielded, chunk) ELSE yielded

\* except RequestException: yield b"" / except Exception: yield b""
\* Either clause yields one empty chunk and the generator returns.
OnStreamError(s, e) ==
  IF e.type = "RequestException"
    THEN [s EXCEPT !.pc = "done", !.failure = e, !.yielded = Append(@, EmptyBytes)]
  ELSE IF e.type = "Exception"
    THEN [s EXCEPT !.pc = "done", !.failure = e, !.yielded = Append(@, EmptyBytes)]
  ELSE [s EXCEPT !.pc = "done", !.failure = e, !.raised = e]

\* requests.get(audio_url, stream=True) connects or raises.
StreamConnect ==
  /\ stream.pc = "start"
  /\ \E outcome \in {NoExc} \cup StreamErrors :
       stream' = IF outcome = NoExc
                   THEN [stream EXCEPT !.pc = "status"]
                   ELSE OnStreamError(stream, outcome)
  /\ UNCHANGED <<openai_client, REPLICATE_API_TOKEN, req>>

\* r.raise_for_status(): HTTPError (a RequestException) on a 4xx/5xx status.
StreamRaiseForStatus ==
  /\ stream.pc = "status"
  /\ \E ok \in BOOLEAN :
       stream' = IF ok
                   THEN [stream EXCEPT !.pc = "iter"]
                   ELSE OnStreamError(stream, RequestException(<<"404 Client Error">>))
  /\ UNCHANGED <<openai_client, REPLICATE_API_TOKEN, req>>

\* One turn of "for chunk in r.iter_content(chunk_size=8192)".
StreamChunk ==
  /\ stream.pc = "iter"
  /\ stream.received < MaxChunks
  /\ \E chunk \in Chunks :
       stream' = [stream EXCEPT !.received = @ + 1,
                                !.yielded = OnChunk(@, chunk)]
  /\ UNCHANGED <<openai_client, REPLICATE_API_TOKEN, req>>

\* iter_content raises while the body is being read.
StreamFail ==
  /\ stream.pc = "iter"
  /\ \E e \in StreamErrors : stream' = OnStreamError(stream, e)
  /\ UNCHANGED <<openai_client, REPLICATE_API_TOKEN, req>>

\* iter_content is exhausted: the generator returns.
StreamEnd ==
  /\ stream.pc = "iter"
  /\ stream' = [stream EXCEPT !.pc = "done"]
  /\ UNCHANGED <<openai_client, REPLICATE_API_TOKEN, req>>

-----------------------------------------------------------------------------
(* Actions of the HTTP service *)

\* POST /describe-image-musically arrives: framework validation, then the
\* service function up to "await image.read()".
DescribeImage(r) ==
  /\ req[r].pc = "idle"
  /\ \E image \in Uploads :
       LET q == [req[r] EXCEPT !.endpoint = "describe", !.input = image] IN
       req' = [req EXCEPT ![r] =
                 IF ~FileFieldPresent(image) THEN RejectValidation(q)
                 ELSE IF DescribeGuards(openai_client, image) # NoExc
                   THEN FinishDescribe(q, Raise(DescribeGuards(openai_client, image)))
                 ELSE [q EXCEPT !.pc = "read"]]
  /\ UNCHANGED <<openai_client, REPLICATE_API_TOKEN, stream>>

\* await image.read() completes; on success the image is encoded and the
\* provider call is issued, on failure the except clause wraps the error.
ReadUpload(r) ==
  /\ req[r].pc = "read"
  /\ \E outcome \in {NoExc} \cup VisionErrors :
       req' = [req EXCEPT ![r] =
                 IF outcome = NoExc THEN CallVision(req[r])
                 ELSE FinishDescribe(req[r], Raise(DescribeWrap(outcome)))]
  /\ UNCHANGED <<openai_client, REPLICATE_API_TOKEN, stream>>

\* The vision provider answers (content, or an exception; an empty
\* "choices" list surfaces as an IndexError, one of the exceptions).
VisionResponds(r) ==
  /\ req[r].pc = "vision"
  /\ \E outcome \in {Return(c) : c \in VisionContents} \cup {Raise(e) : e \in VisionErrors} :
       req' = [req EXCEPT ![r] =
                 FinishDescribe([req[r] EXCEPT !.provider = outcome],
                                DescribeResult(outcome))]
  /\ UNCHANGED <<openai_client, REPLICATE_API_TOKEN, stream>>

\* POST /generate-audio arrives: framework validation, then the service
\* function up to replicate.run.
GenerateAudio(r) ==
  /\ req[r].pc = "idle"
  /\ \E prompt \in Prompts :
       LET q == [req[r] EXCEPT !.endpoint = "generate", !.input = prompt] IN
       req' = [req EXCEPT ![r] =
                 IF ~FormFieldPresent(prompt) THEN RejectValidation(q)
                 ELSE IF TokenGuard(REPLICATE_API_TOKEN) # NoExc
                   THEN FinishGenerate(q, Raise(TokenGuard(REPLICATE_API_TOKEN)))
                 ELSE CallAudio(q)]
  /\ UNCHANGED <<openai_client, REPLICATE_API_TOKEN, stream>>

\* replicate.run returns an output or raises.
AudioResponds(r) ==
  /\ req[r].pc = "audio"
  /\ \E outcome \in {Return(o) : o \in AudioOutputs} \cup {Raise(e) : e \in AudioErrors} :
       req' = [req EXCEPT ![r] =
                 FinishGenerate([req[r] EXCEPT !.provider = outcome],
                                GenerateResult(outcome))]
  /\ UNCHANGED <<openai_client, REPLICATE_API_TOKEN, stream>>

-----------------------------------------------------------------------------
(* Specifications *)

Init ==
  /\ openai_client \in ClientValues
  /\ REPLICATE_API_TOKEN \in TokenValues
  /\ req = [r \in Requests |-> IdleRequest]
  /\ stream = InitStream

Next ==
  \E r \in Requests :
    \/ DescribeImage(r)
    \/ ReadUpload(r)
    \/ VisionResponds(r)
    \/ GenerateAudio(r)
    \/ AudioResponds(r)

Spec == Init /\ [][Next]_vars

NextStream ==
  \/ StreamConnect
  \/ StreamRaiseForStatus
  \/ StreamChunk
  \/ StreamFail
  \/ StreamEnd

SpecStream == Init /\ [][NextStream]_vars

-----------------------------------------------------------------------------
(* Properties *)

Done(r) == req[r].pc = "done"
IsDescribe(r) == req[r].endpoint = "describe"
IsGenerate(r) == req[r].endpoint = "generate"
Status(r) == req[r].response.status_code
\* The text fragment m occurs in the detail of r's error response.
DetailHas(r, m) ==
  /\ req[r].response.key = "detail"
  /\ \E i \in DOMAIN req[r].response.value : req[r].response.value[i] = m
ProviderReturned(r) == req[r].provider.kind = "return"
ProviderRaised(r) == req[r].provider.kind = "raise"

\* C1: every DescribeImage request whose content type is absent or does not
\* start with "image/" is rejected with HTTP 400 and makes no call to the
\* vision provider, whatever the configuration (client initialised or not).
C1_InvalidContentTypeIs400 ==
  \A r \in Requests :
    (Done(r) /\ IsDescribe(r) /\ req[r].input # Missing
       /\ ~ValidContentType(req[r].input.content_type))
      => (Status(r) = 400 /\ req[r].visionCalls = 0)

\* C2: for every URL u, each of the three recognised output shapes carrying u
\* (bare string, dict with "audio", object with .url) makes GenerateAudio
\* answer 200 with audio_url equal to the string u.  Stated here for the
\* http(s) URLs, the ones the bare-string shape accepts at all.
WebUrls == {u \in Urls : StartsWith(u, Http)}

C2_ThreeShapesNormalised ==
  \A r \in Requests : \A u \in WebUrls :
    (Done(r) /\ IsGenerate(r) /\ ProviderReturned(r)
       /\ req[r].provider.value \in RecognisedShapes(u))
      => req[r].response = JsonResponse("audio_url", PyStr(u))

\* C3: when the vision provider returns empty content (None or "") the
\* request fails with HTTP 500 whose detail reports the empty description,
\* and no DescribeImage response with status 200 carries an empty description.
C3_EmptyDescriptionIs500 ==
  \A r \in Requests :
    /\ (Done(r) /\ IsDescribe(r) /\ ProviderReturned(r)
          /\ ~Truthy(req[r].provider.value))
         => (Status(r) = 500
             /\ DetailHas(r, "OpenAI returned an empty description."))
    /\ (IsDescribe(r) /\ Status(r) = 200)
         => (req[r].response.key = "description" /\ Truthy(req[r].response.value))

C3_Witness ==
  \E r \in Requests :
    /\ Done(r) /\ IsDescribe(r) /\ ProviderReturned(r)
    /\ req[r].provider.value = PyStr(<< >>)
    /\ Status(r) = 500

\* C4: when the audio provider returns a value of no recognised shape (an
\* integer, None, a dict without "audio") the request fails with HTTP 500
\* (not 502, not 200), reports the unexpected output format, and carries no
\* audio_url.
C4_UnrecognisedOutputIs500 ==
  \A r \in Requests :
    (Done(r) /\ IsGenerate(r) /\ ProviderReturned(r)
       /\ req[r].provider.value \in UnrecognisedOutputs)
      => (Status(r) = 500
          /\ DetailHas(r, "Unexpected output format from audio generation model."))

C4_Witness ==
  \E r \in Requests :
    /\ Done(r) /\ IsGenerate(r) /\ ProviderReturned(r)
    /\ req[r].provider.value = PyInt(7)
    /\ Status(r) = 500

\* C5: in GenerateAudio a ReplicateError raised by the provider call is
\* surfaced as 502; every other failure of the service function (missing
\* credential, unrecognised output, any other exception) is surfaced as 500;
\* a 502 occurs only when the provider raised a ReplicateError.
ProviderSpecificError(r) ==
  ProviderRaised(r) /\ req[r].provider.exc.type = "ReplicateError"

C5_Only502ForProviderError ==
  \A r \in Requests :
    (Done(r) /\ IsGenerate(r)) =>
      /\ ProviderSpecificError(r) => Status(r) = 502
      /\ Status(r) = 502 => ProviderSpecificError(r)
      /\ (req[r].adapter.kind = "raise" /\ ~ProviderSpecificError(r))
           => Status(r) = 500

C5_Witness ==
  \E r1, r2 \in Requests :
    /\ Done(r1) /\ IsGenerate(r1) /\ ProviderSpecificError(r1) /\ Status(r1) = 502
    /\ Done(r2) /\ IsGenerate(r2) /\ ProviderRaised(r2)
    /\ req[r2].provider.exc.type = "Exception" /\ Status(r2) = 500

\* C6: a GenerateAudio request whose prompt field is missing or empty is
\* rejected with a 422 validation failure; the service function is never
\* entered and the audio provider is never called for it.
InvalidPrompt(p) == p = Missing \/ p = PyStr(<< >>)

C6_InvalidPromptRejected ==
  \A r \in Requests :
    (IsGenerate(r) /\ InvalidPrompt(req[r].input)) =>
      /\ Done(r) /\ Status(r) = 422
      /\ req[r].adapter = Pending
      /\ req[r].audioCalls = 0

C6_Witness ==
  \E r1, r2 \in Requests :
    /\ Done(r1) /\ IsGenerate(r1) /\ req[r1].input = PyStr(<< >>) /\ Status(r1) = 422
    /\ Done(r2) /\ IsGenerate(r2) /\ req[r2].input = Missing /\ Status(r2) = 422

\* C7: when the Replicate credential is absent (unset or empty), no
\* GenerateAudio request makes an outbound call to the audio provider, and
\* every GenerateAudio request that enters the service function fails with
\* HTTP 500 "Replicate API token not configured." (the check precedes the
\* call).  Requests refused by form validation never enter it (C6).
CredentialAbsent == ~Truthy(REPLICATE_API_TOKEN)

C7_NoTokenNoCall ==
  CredentialAbsent =>
    \A r \in Requests :
      IsGenerate(r) =>
        /\ req[r].audioCalls = 0
        /\ req[r].provider = Pending
        /\ Done(r)
        /\ ~InvalidPrompt(req[r].input)
             => (Status(r) = 500
                 /\ req[r].response.value = <<"Replicate API token not configured.">>)

C7_Witness ==
  /\ REPLICATE_API_TOKEN = PyStr(<< >>)
  /\ \E r \in Requests :
       /\ Done(r) /\ IsGenerate(r) /\ req[r].input = PyStr(PromptText)
       /\ Status(r) = 500 /\ req[r].audioCalls = 0

\* C8: every finished request ends in a 200 response or in an HTTPException
\* with status 400, 422, 500 or 502 and a non-empty detail; what the service
\* function raises is always an HTTPException, never the provider's (or the
\* upload read's) own exception; and the endpoint passes the service
\* function's HTTPException on with status and detail unchanged.
C8_OnlyHTTPExceptions ==
  \A r \in Requests :
    Done(r) =>
      /\ Status(r) \in {200, 400, 422, 500, 502}
      /\ Status(r) # 200
           => (req[r].response.key = "detail" /\ req[r].response.value # << >>)
      /\ req[r].adapter.kind = "raise" =>
           /\ req[r].adapter.exc.type = "HTTPException"
           /\ Status(r) = req[r].adapter.exc.status_code
           /\ req[r].response.value = req[r].adapter.exc.detail

C8_Witness ==
  \E r1, r2 \in Requests :
    /\ Done(r1) /\ IsDescribe(r1) /\ ProviderRaised(r1)
    /\ req[r1].provider.exc = OtherError(<< >>) /\ Status(r1) = 500
    /\ Done(r2) /\ IsGenerate(r2) /\ ProviderSpecificError(r2) /\ Status(r2) = 502

\* C9: each request makes at most one outbound call, and only to its own
\* endpoint's provider; once the outbound call has failed the request has
\* ended in an error having made exactly that one call (no retry), for all
\* requests handled concurrently.
C9_AtMostOneOutboundCall ==
  \A r \in Requests :
    /\ req[r].visionCalls + req[r].audioCalls <= 1
    /\ IsDescribe(r) => req[r].audioCalls = 0
    /\ IsGenerate(r) => req[r].visionCalls = 0
    /\ req[r].endpoint = "none" => (req[r].visionCalls = 0 /\ req[r].audioCalls = 0)
    /\ ProviderRaised(r) =>
         /\ Done(r) /\ Status(r) \in {500, 502}
         /\ req[r].visionCalls + req[r].audioCalls = 1

C9_Witness ==
  \E r1, r2 \in Requests :
    /\ Done(r1) /\ IsGenerate(r1) /\ ProviderRaised(r1) /\ req[r1].audioCalls = 1
    /\ req[r2].pc = "vision" /\ req[r2].visionCalls = 1

\* C10: the generator never raises to its consumer and yields finitely many
\* chunks; an empty chunk is yielded only after a transport failure, only
\* once, and only as the last element; after a failure at any point
\* (connect, status, mid-body) the sequence ends with that empty chunk; every
\* other chunk is non-empty.
C10_StreamEndsWithSentinel ==
  LET y == stream.yielded IN
    /\ stream.raised = NoExc
    /\ Len(y) <= stream.received + 1
    /\ \A i \in 1..Len(y) :
         y[i] = EmptyBytes => (i = Len(y) /\ stream.pc = "done" /\ stream.failure # NoExc)
    /\ (stream.pc = "done" /\ stream.failure # NoExc)
         => (Len(y) >= 1 /\ y[Len(y)] = EmptyBytes)
    /\ stream.failure # NoExc => stream.pc = "done"

C10_Witness ==
  /\ stream.pc = "done" /\ stream.failure # NoExc
  /\ Len(stream.yielded) = 3
  /\ stream.received = 3
  /\ stream.yielded[3] = EmptyBytes

====
